---- MODULE Spec2Model ----
(***************************************************************************)
(* CloudCommerce submission pipeline: the POST handler of the submit route *)
(* (credit gate, CrewAI / vision analysis, scraping, listing generation,   *)
(* CSV, credit debit, history insert) and scrapeSimilarItems of            *)
(* lib/crew.ts, as state machines over the awaits of the code.             *)
(*                                                                         *)
(* One action is one continuation of the handler: from the completion of   *)
(* an awaited call up to the next await, which is how the JavaScript event *)
(* loop interleaves concurrent requests.                                   *)
(*                                                                         *)
(* Numbers: a JavaScript number is a record [kind, num, den], an exact     *)
(* rational num/den in lowest terms (kind "number") or NaN.  The model     *)
(* does not round as IEEE doubles do.                                      *)
(***************************************************************************)
EXTENDS Integers, Sequences, FiniteSets, TLC

----------------------------------------------------------------------------
(* Bounds of the model *)

\* concurrent submissions of the one user
NumSubs == 2

\* largest credit balance the user starts with
MaxCredits == 2

\* concurrent add_credits calls and webhook deliveries for the user
NumGrants == 2

\* largest amount of an add_credits call
MaxAmount == 2

\* concurrent inserts into listings by the user
NumInserts == 3

\* largest monthly_listings of the user's plan
MaxLimit == 2

----------------------------------------------------------------------------
(* Program constants *)

\* crew.ts:16  const sites = [...]
sites == <<"ebay.com", "amazon.com", "publicsurplus.com", "shopgoodwill.com">>

\* crew.ts:34  if (i < 5)   -- top 5 titles of a page
TopLimit == 5

\* route: generateListings(enhancedPrompt, ['ebay', 'amazon', 'facebook'])
platforms == <<"ebay", "amazon", "facebook">>

Subs == 1..NumSubs
Grants == 1..NumGrants
Inserts == 1..NumInserts
SiteIdx == 1..Len(sites)

----------------------------------------------------------------------------
(* JavaScript numbers *)

Abs(n) == IF n < 0 THEN -n ELSE n

RECURSIVE GCD(_, _)
GCD(a, b) == IF b = 0 THEN a ELSE GCD(b, a % b)

\* the number n/d (d > 0), in lowest terms
Rat(n, d) ==
    LET g == GCD(Abs(n), d)
    IN  [kind |-> "number", num |-> n \div g, den |-> d \div g]

NaN == [kind |-> "NaN", num |-> 0, den |-> 1]
Zero == Rat(0, 1)

\* x || 0 on a number: NaN and 0 are falsy
OrZero(x) == IF x.kind = "NaN" \/ x.num = 0 THEN Zero ELSE x

\* a + b, a < b, a * b on finite numbers
RatAdd(a, b) == Rat(a.num * b.den + b.num * a.den, a.den * b.den)
RatLess(a, b) == a.num * b.den < b.num * a.den
RatMul(a, b) == Rat(a.num * b.num, a.den * b.den)

\* a / n for an integer n >= 0: 0 / 0 is NaN (x / 0 is Infinity for x # 0, which
\* the average never computes: an empty list sums to 0)
RatDivInt(a, n) == IF n = 0 THEN NaN ELSE Rat(a.num, a.den * n)

----------------------------------------------------------------------------
(* Strings are sequences of one-character strings *)

Digits == {"0", "1", "2", "3", "4", "5", "6", "7", "8", "9"}

DigitVal(c) ==
    CASE c = "0" -> 0 [] c = "1" -> 1 [] c = "2" -> 2 [] c = "3" -> 3
      [] c = "4" -> 4 [] c = "5" -> 5 [] c = "6" -> 6 [] c = "7" -> 7
      [] c = "8" -> 8 [] c = "9" -> 9

\* String.prototype.replace(c, ''): removes the FIRST occurrence of c only
RECURSIVE RemoveFirst(_, _)
RemoveFirst(s, c) ==
    IF s = <<>> THEN <<>>
    ELSE IF Head(s) = c THEN Tail(s)
    ELSE <<Head(s)>> \o RemoveFirst(Tail(s), c)

\* the index after the run of digits of s that starts at i
RECURSIVE DigitsEnd(_, _)
DigitsEnd(s, i) ==
    IF i <= Len(s) /\ s[i] \in Digits THEN DigitsEnd(s, i + 1) ELSE i

\* the decimal value of the digits s[i..j-1]
RECURSIVE DigitsValue(_, _, _)
DigitsValue(s, i, j) ==
    IF j <= i THEN 0 ELSE DigitsValue(s, i, j - 1) * 10 + DigitVal(s[j - 1])

RECURSIVE Pow10(_)
Pow10(k) == IF k = 0 THEN 1 ELSE 10 * Pow10(k - 1)

\* the index of the first character of s at or after i that is not a blank
RECURSIVE SkipBlanks(_, _)
SkipBlanks(s, i) ==
    IF i <= Len(s) /\ s[i] = " " THEN SkipBlanks(s, i + 1) ELSE i

\* parseFloat: leading blanks, an optional sign, then the longest prefix
\* digits [. digits] or . digits; NaN when no digit is found.  Whatever
\* follows the prefix is ignored ("1,200" is 1).  Exponents and "Infinity"
\* are not in the alphabet of the modelled pages.
ParseFloat(s) ==
    LET i0   == SkipBlanks(s, 1)
        neg  == i0 <= Len(s) /\ s[i0] = "-"
        i1   == IF i0 <= Len(s) /\ s[i0] \in {"-", "+"} THEN i0 + 1 ELSE i0
        i2   == DigitsEnd(s, i1)
        dot  == i2 <= Len(s) /\ s[i2] = "."
        i3   == IF dot THEN DigitsEnd(s, i2 + 1) ELSE i2
        nInt == i2 - i1
        nFr  == IF dot THEN i3 - (i2 + 1) ELSE 0
        mag  == DigitsValue(s, i1, i2) * Pow10(nFr)
                  + (IF dot THEN DigitsValue(s, i2 + 1, i3) ELSE 0)
    IN  IF nInt + nFr = 0 THEN NaN
        ELSE Rat(IF neg THEN -mag ELSE mag, Pow10(nFr))

----------------------------------------------------------------------------
(* What the marketplace sites answer *)

S100  == <<"$", "1", "0", "0">>
S15   == <<"$", "1", "5">>
S40   == <<"$", "4", "0">>
S41   == <<"$", "4", "1">>
S1250 == <<"$", "1", "2", ".", "5", "0">>
S1200 == <<"$", "1", ",", "2", "0", "0">>
SNA   == <<"N", "/", "A">>
SZero == <<"$", "0", ".", "0", "0">>
SNone == <<>>
SNeg  == <<"-", "$", "5">>

Item(t, p) == [title |-> t, price |-> p]

PageB     == <<Item("iPhone 12", S100), Item("iPhone 12 case", S15)>>
PageMixed == <<Item("iPhone lot", SNA), Item("iPhone 12 Pro", S1200),
               Item("iPhone coupon", SNeg)>>
PageCheap == <<Item("iPhone 12 used", S40)>>
PageLong  == <<Item("a", S41), Item("b", SZero), Item("c", SNone),
               Item("d", S1250), Item("e", S100), Item("f", S15)>>
PageEmpty == <<>>

Ok(page) == [kind |-> "ok", items |-> page]
Timeout  == [kind |-> "timeout", items |-> <<>>]
HttpError == [kind |-> "error", items |-> <<>>]

\* every answer a request to a site can get
Replies == {Timeout, HttpError, Ok(PageB), Ok(PageMixed), Ok(PageCheap),
            Ok(PageLong), Ok(PageEmpty)}

AllDown == [k \in SiteIdx |-> Timeout]

\* the webs the submissions run against: every site down; the comparables
\* of 100 and 15 with one site down; unparseable prices among valid ones
ScenarioWeb ==
    [k \in SiteIdx |-> CASE k = 1 -> Ok(PageB) [] k = 2 -> HttpError
                         [] OTHER -> Ok(PageEmpty)]

SubmissionWebs ==
    { AllDown, ScenarioWeb,
      [k \in SiteIdx |-> CASE k = 1 -> Ok(PageMixed) [] k = 2 -> Ok(PageCheap)
                           [] k = 3 -> Timeout [] OTHER -> Ok(PageLong)] }

----------------------------------------------------------------------------
(* scrapeSimilarItems: the pure parts *)

Min(a, b) == IF a < b THEN a ELSE b

\* crew.ts:33-39: the first TopLimit titles of the page, each with the text of
\* its price element, pushed as {site, title, price}; the price stays a string
Extract(site, items) ==
    [i \in 1..Min(Len(items), TopLimit) |->
        [site |-> site, title |-> items[i].title, price |-> items[i].price]]

\* crew.ts:47: parseFloat(r.price.replace('$', '')) || 0
PriceOf(r) == OrZero(ParseFloat(RemoveFirst(r.price, "$")))

\* crew.ts:47: .filter(p => p > 0)
IsPositive(p) == p.num > 0

Prices(res) ==
    LET mapped == [i \in 1..Len(res) |-> PriceOf(res[i])]
    IN  SelectSeq(mapped, IsPositive)

\* crew.ts:48: prices.reduce((a, b) => a + b, 0)
RECURSIVE SumSeq(_)
SumSeq(ps) == IF ps = <<>> THEN Zero ELSE RatAdd(Head(ps), SumSeq(Tail(ps)))

\* mutant: the sum is divided by the number of all the entries
AvgPriceAllEntries(res) == OrZero(RatDivInt(SumSeq(Prices(res)), Len(res)))

\* crew.ts:48: sum / prices.length || 0
AvgPrice(res) ==
    LET ps == Prices(res)
    IN  OrZero(RatDivInt(SumSeq(ps), Len(ps)))

\* mutant: the entries without a positive price are dropped from the result
ScrapeResultFiltered(res) ==
    LET Valid(r) == IsPositive(PriceOf(r))
    IN  [similarItems |-> SelectSeq(res, Valid), recommendedPrice |-> AvgPrice(res)]

\* crew.ts:50: return { similarItems: results, recommendedPrice: avgPrice }
ScrapeResult(res) == [similarItems |-> res, recommendedPrice |-> AvgPrice(res)]

NoScrape == [similarItems |-> <<>>, recommendedPrice |-> NaN]

\* crew.ts:57: the literal 0.7
Threshold == Rat(7, 10)

\* mutant: the threshold is taken as the discount off the aggregate
IsOpportunityAtDiscount(item, rp, t) ==
    LET p == ParseFloat(RemoveFirst(item.price, "$"))
    IN  /\ p.kind = "number"
        /\ rp.kind = "number"
        /\ RatLess(p, RatMul(rp, Rat(t.den - t.num, t.den)))

\* crew.ts:57: parseFloat(item.price.replace('$', '')) < recommendedPrice * t,
\* where the code has the literal 0.7 for t (a comparison with NaN is false)
IsOpportunityAt(item, rp, t) ==
    LET p == ParseFloat(RemoveFirst(item.price, "$"))
    IN  /\ p.kind = "number"
        /\ rp.kind = "number"
        /\ RatLess(p, RatMul(rp, t))

IsOpportunity(item, rp) == IsOpportunityAt(item, rp, Threshold)

\* mutant: no filter: every scraped entry is returned
OpportunitiesAll(data) == data.similarItems

\* crew.ts:56-58: data.similarItems.filter(...)
Opportunities(data) ==
    LET Test(item) == IsOpportunity(item, data.recommendedPrice)
    IN  SelectSeq(data.similarItems, Test)

----------------------------------------------------------------------------
(* State *)

\* process 0 is a findArbitrage job; processes 1..NumSubs are POST requests
\* (submissions) of the one user
ArbJob == 0
Procs == {ArbJob} \cup Subs

VARIABLES
    web,            \* what each site answers (the environment)
    faults,         \* whether the services other than the ledger may fail
    stalled,        \* the services that accept a request and never answer it
    credits,        \* users.credits of the user's row
    subStatus,      \* users.sub_status of the user's row
    initCredits,    \* history: the balance before any submission ran
    pc,             \* where each process stands: the await it is suspended at
    userData,       \* POST: const { data: userData } of the ledger read
    crew,           \* POST: how runCrewAI ended
    vision,         \* POST: how analyzeItem ended
    siteState,      \* scrapeSimilarItems: each site's request
    results,        \* scrapeSimilarItems: const results
    errLog,         \* scrapeSimilarItems: the sites console.error reported
    scraped,        \* what scrapeSimilarItems returned to its caller
    opportunities,  \* findArbitrage: its return value
    listings,       \* POST: const listings
    csv,            \* POST: const csv
    calls,          \* history: the external calls each POST issued
    debitIssued,    \* history: users.update requests each POST issued
    debitCommitted, \* history: users.update requests the ledger committed
    response,       \* POST: the NextResponse returned
    logged,         \* POST: what the handler wrote with console.error
    gpc,            \* add_credits / webhook: where each call stands
    gread,          \* add_credits: current_credits
    gamt,           \* add_credits: amount
    lpc,            \* insert into listings: where each transaction stands
    listingsUsed,   \* subscription_usage.listings_used of the current month
    monthlyListings \* subscription_plans.monthly_listings of the user's plan

envVars    == <<web, faults, stalled>>
dbVars     == <<credits, subStatus, initCredits>>
scrapeVars == <<siteState, results, errLog, scraped>>
debitVars  == <<debitIssued, debitCommitted>>
grantVars  == <<gpc, gread, gamt>>
limitVars  == <<lpc, listingsUsed, monthlyListings>>
vars == <<web, faults, stalled, credits, subStatus, initCredits, pc, userData, crew, vision,
          siteState, results, errLog, scraped, opportunities, listings, csv,
          calls, debitIssued, debitCommitted, response, logged, gpc, gread, gamt,
          lpc, listingsUsed, monthlyListings>>

\* userData is null when the read finds no row or fails: { data: null }
NullData == [row |-> FALSE, credits |-> 0, sub_status |-> ""]
RowData  == [row |-> TRUE, credits |-> credits, sub_status |-> subStatus]

\* stage and degraded stand for fields that no body of the handler has: no
\* response sets them
NoResponse ==
    [status |-> 0, error |-> "", stage |-> "", degraded |-> FALSE,
     listings |-> <<>>, csv |-> <<>>, recommendedPrice |-> NaN, arbitrage |-> <<>>]

\* NextResponse.json({ error }, { status }): the body has no other field
ErrorResponse(status, msg) == [NoResponse EXCEPT !.status = status, !.error = msg]

AllPending == [k \in SiteIdx |-> "pending"]

----------------------------------------------------------------------------
(* Listings and the CSV *)

\* A text of a listing is a sequence of atoms: the characters , " and the
\* line feed are atoms of their own, a run of other characters is one atom.
Comma == ","
Quote == "\""
LF    == "\n"

\* the drafts a reply can hold for a platform: a plain one, one whose title
\* has a double quote in it, one whose price has a thousands separator, and
\* one with empty texts
DraftKinds == {"plain", "quoted", "priced", "blank"}

DraftOf(kind, platform) ==
    [platform |-> platform,
     title |-> CASE kind = "quoted" -> <<"iPhone 12 6.1", Quote, " screen">>
                 [] kind = "blank" -> <<>>
                 [] OTHER -> <<"Red iPhone 12">>,
     description |-> IF kind = "blank" THEN <<>>
                     ELSE <<"Good condition", Comma, " unlocked">>,
     price |-> IF kind = "priced" THEN <<"1", Comma, "250">> ELSE <<"250">>,
     condition |-> <<"Good">>]

Draft(platform) == DraftOf("plain", platform)

\* the orders in which the keys of the parsed reply can come
KeyOrders ==
    {o \in [1..Len(platforms) -> 1..Len(platforms)] :
        \A i, j \in 1..Len(platforms) : o[i] = o[j] => i = j}

\* the parsed reply: an object is the sequence of its entries in key order
ListingsOf(o, kind) == [i \in 1..Len(platforms) |-> DraftOf(kind, platforms[o[i]])]

\* what JSON.parse of the model's reply can hold: a draft per platform in any
\* key order, a draft for one platform only, or {} (also the '{}' of an empty
\* reply)
FullListings    == [i \in 1..Len(platforms) |-> Draft(platforms[i])]
PartialListings == <<Draft("ebay")>>
EmptyListings   == <<>>

GenReplies ==
    IF faults
    THEN {ListingsOf(o, kind) : o \in KeyOrders, kind \in DraftKinds}
           \cup {PartialListings, EmptyListings}
    ELSE {FullListings}

CsvHeader ==
    <<"Platform", Comma, "Title", Comma, "Description", Comma, "Price", Comma,
      "Condition">>

\* `${platform},"${item.title}","${item.description}",$${item.price},"${item.condition}"`
CsvRow(item) ==
    <<item.platform, Comma, Quote>> \o item.title \o <<Quote, Comma, Quote>>
      \o item.description \o <<Quote, Comma, "$">> \o item.price
      \o <<Comma, Quote>> \o item.condition \o <<Quote>>

\* Array.prototype.join('\n')
RECURSIVE JoinRows(_)
JoinRows(rows) ==
    IF rows = <<>> THEN <<>>
    ELSE IF Len(rows) = 1 THEN Head(rows)
    ELSE Head(rows) \o <<LF>> \o JoinRows(Tail(rows))

\* mutant: the rows come in the order of the platforms list, whatever the
\* order of the object's keys
EntryRowsByPlatform(ls) ==
    LET Rank(d) == CHOOSE i \in 1..Len(platforms) : platforms[i] = d.platform
        Before(k) == {j \in 1..Len(ls) : Rank(ls[j]) <= Rank(ls[k])}
        Nth(i) == CHOOSE k \in 1..Len(ls) : Cardinality(Before(k)) = i
    IN  [i \in 1..Len(ls) |-> CsvRow(ls[Nth(i)])]

\* Object.entries(listings).map(...): the entries in the order of the
\* object's keys (the order of the reply)
EntryRows(ls) == [i \in 1..Len(ls) |-> CsvRow(ls[i])]

\* route:51-53: the header, a line feed, the rows joined by line feeds
Csv(ls) == CsvHeader \o <<LF>> \o JoinRows(EntryRows(ls))

----------------------------------------------------------------------------
(* The analysis *)

\* the analysis the handler holds: crewResult.analysis || await analyzeItem(...)
Analysis(s) ==
    IF crew[s] = "analysis" THEN "crew"
    ELSE IF vision[s] \in {"ok", "invalid"} THEN vision[s]
    ELSE "none"

\* the price estimate a valid analysis text carries ("price range")
AnalysisEstimate(a) == IF a = "crew" THEN Rat(240, 1) ELSE Rat(260, 1)

----------------------------------------------------------------------------
(* scrapeSimilarItems: the loop over the sites *)

\* mutant: the requests of all the sites are issued at once (Promise.all)
LaunchAll(st, k) ==
    [i \in SiteIdx |-> IF st[i] = "pending" THEN "inflight" ELSE st[i]]

\* crew.ts:26-30: the loop reaches site k and issues its request
LaunchRequest(st, k) == [st EXCEPT ![k] = "inflight"]

\* the call: results = [], then the loop issues the request of the first site
StartScrape(p) ==
    /\ siteState' = [siteState EXCEPT ![p] = LaunchRequest(AllPending, 1)]
    /\ results' = [results EXCEPT ![p] = <<>>]
    /\ errLog' = [errLog EXCEPT ![p] = {}]

\* crew.ts:50 and the caller's continuation: findArbitrage filters the
\* opportunities and returns; POST builds the prompt and calls generateListings
ScrapeReturns(p, ret) ==
    /\ scraped' = [scraped EXCEPT ![p] = ret]
    /\ IF p = ArbJob
       THEN /\ opportunities' = Opportunities(ret)
            /\ pc' = [pc EXCEPT ![p] = "arb_done"]
            /\ UNCHANGED calls
       ELSE /\ pc' = [pc EXCEPT ![p] = "generate"]
            /\ calls' = [calls EXCEPT ![p] = @ \cup {"generate"}]
            /\ UNCHANGED opportunities

\* the end of the loop body for site k: the next site's request, or the return
LoopNext(p, k, st, res, log) ==
    /\ results' = [results EXCEPT ![p] = res]
    /\ errLog' = [errLog EXCEPT ![p] = log]
    /\ IF k < Len(sites)
       THEN /\ siteState' = [siteState EXCEPT ![p] = LaunchRequest(st, k + 1)]
            /\ UNCHANGED <<scraped, opportunities, pc, calls>>
       ELSE /\ siteState' = [siteState EXCEPT ![p] = st]
            /\ ScrapeReturns(p, ScrapeResult(res))

\* crew.ts:30-40: the page arrives, its first titles are pushed, and the loop
\* waits for the 1 s delay
SiteResponds(p) ==
    /\ pc[p] = "scrape"
    /\ \E k \in SiteIdx :
        /\ siteState[p][k] = "inflight"
        /\ web[k].kind = "ok"
        /\ siteState' = [siteState EXCEPT ![p][k] = "delay"]
        /\ results' = [results EXCEPT ![p] = @ \o Extract(sites[k], web[k].items)]
    /\ UNCHANGED <<envVars, grantVars, limitVars, dbVars, pc, userData, crew, vision, errLog, scraped,
                   opportunities, listings, csv, calls, debitVars, response, logged>>

\* crew.ts:40: the delay is over
DelayElapsed(p) ==
    /\ pc[p] = "scrape"
    /\ \E k \in SiteIdx :
        /\ siteState[p][k] = "delay"
        /\ LoopNext(p, k, [siteState[p] EXCEPT ![k] = "ok"], results[p], errLog[p])
    /\ UNCHANGED <<envVars, grantVars, limitVars, dbVars, userData, crew, vision, listings, csv,
                   debitVars, response, logged>>

\* mutant: no catch around the request: the failure leaves the loop and
\* rejects the call
SiteFailsAborts(p) ==
    /\ pc[p] = "scrape"
    /\ \E k \in SiteIdx :
        /\ siteState[p][k] = "inflight"
        /\ web[k].kind # "ok"
        /\ siteState' = [siteState EXCEPT ![p][k] = "failed"]
    /\ pc' = [pc EXCEPT ![p] = "failed"]
    /\ UNCHANGED <<envVars, grantVars, limitVars, dbVars, userData, crew, vision, results, errLog,
                   scraped, opportunities, listings, csv, calls, debitVars,
                   response, logged>>

\* mutant: the catch also records the failed site in the results
SiteFailsMarked(p) ==
    /\ pc[p] = "scrape"
    /\ \E k \in SiteIdx :
        /\ siteState[p][k] = "inflight"
        /\ web[k].kind # "ok"
        /\ LoopNext(p, k, [siteState[p] EXCEPT ![k] = "failed"],
                    results[p] \o <<[site |-> sites[k], title |-> "failed",
                                     price |-> <<>>]>>,
                    errLog[p] \cup {k})
    /\ UNCHANGED <<envVars, grantVars, limitVars, dbVars, userData, crew, vision, listings, csv,
                   debitVars, response, logged>>

\* crew.ts:41-43: the request times out or fails; the catch logs the site
SiteFails(p) ==
    /\ pc[p] = "scrape"
    /\ \E k \in SiteIdx :
        /\ siteState[p][k] = "inflight"
        /\ web[k].kind # "ok"
        /\ LoopNext(p, k, [siteState[p] EXCEPT ![k] = "failed"], results[p],
                    errLog[p] \cup {k})
    /\ UNCHANGED <<envVars, grantVars, limitVars, dbVars, userData, crew, vision, listings, csv,
                   debitVars, response, logged>>

\* crew.ts:54-56: findArbitrage calls scrapeSimilarItems
ArbCall ==
    /\ pc[ArbJob] = "arb_call"
    /\ StartScrape(ArbJob)
    /\ pc' = [pc EXCEPT ![ArbJob] = "scrape"]
    /\ UNCHANGED <<envVars, grantVars, limitVars, dbVars, userData, crew, vision, scraped, opportunities,
                   listings, csv, calls, debitVars, response, logged>>

----------------------------------------------------------------------------
(* What the services answer.  The ledger may always answer either way; the  *)
(* other services fail only in the behaviours with faults.                  *)

\* route:14: currentUser() finds the user or not
AuthOutcomes == IF faults THEN BOOLEAN ELSE {TRUE}

\* route:24: req.formData() parses the body or throws
FormOutcomes == IF faults THEN BOOLEAN ELSE {TRUE}

\* route:38 / crew.ts:2-9: the reply carries an analysis, carries none, or the
\* fetch (or response.json()) rejects
CrewOutcomes == IF faults THEN {"analysis", "noanalysis", "down"} ELSE {"analysis"}

\* openrouter.ts:24-41: message.content is a text of the expected shape
\* ("ok"), or null, empty or of another shape ("invalid"), or the call rejects
VisionOutcomes == IF faults THEN {"ok", "invalid", "timeout", "error"} ELSE {"ok"}

----------------------------------------------------------------------------
(* POST: the submit handler *)

\* mutant: the gate compares with 0 instead of 1
InsufficientOffByOne(ud) == ud.row /\ ud.credits < 0 /\ ud.sub_status # "unlimited"

\* route:19: userData?.credits < 1 && userData?.sub_status !== 'unlimited'
\* (undefined < 1 is false: a null userData is not insufficient)
Insufficient(ud) == ud.row /\ ud.credits < 1 /\ ud.sub_status # "unlimited"

\* mutant: the debit is issued for every admitted row, unlimited plans included
HasCreditOrUnlimited(ud) ==
    ud.row /\ (ud.credits > 0 \/ ud.sub_status = "unlimited")

\* route:56: userData?.credits > 0
HasCredit(ud) == ud.row /\ ud.credits > 0

\* mutant: the update decrements the balance the ledger holds when it runs
DebitValueInPlace(ud) == credits - 1

\* route:57: update({ credits: userData.credits - 1 })
DebitValue(ud) == ud.credits - 1

\* route:69: scraped.arbitrage || []  (scrapeSimilarItems returns no arbitrage)
ResponseArbitrage(sc) == <<>>

\* mutant: the catch logs and returns nothing
FailUnanswered(s) ==
    /\ pc' = [pc EXCEPT ![s] = "failed"]
    /\ logged' = [logged EXCEPT ![s] = @ \cup {"error"}]
    /\ UNCHANGED response

\* route:71-74: the catch: console.error(error) and the 500 response
Fail(s) ==
    /\ pc' = [pc EXCEPT ![s] = "failed"]
    /\ logged' = [logged EXCEPT ![s] = @ \cup {"error"}]
    /\ response' = [response EXCEPT ![s] = ErrorResponse(500, "Processing failed")]

\* route:14-15
Auth(s) ==
    /\ pc[s] = "auth"
    /\ \E authed \in AuthOutcomes :
        IF authed
        THEN pc' = [pc EXCEPT ![s] = "ledger"] /\ UNCHANGED response
        ELSE /\ pc' = [pc EXCEPT ![s] = "unauthorized"]
             /\ response' = [response EXCEPT ![s] = ErrorResponse(401, "Unauthorized")]
    /\ UNCHANGED <<envVars, grantVars, limitVars, dbVars, userData, crew, vision, scrapeVars, opportunities,
                   listings, csv, calls, debitVars, logged>>

\* route:18-38: the ledger read returns; the gate; the form is read and
\* runCrewAI is called
CreditCheck(s) ==
    /\ pc[s] = "ledger"
    /\ \E ud \in {RowData, NullData} :
        /\ userData' = [userData EXCEPT ![s] = ud]
        /\ IF Insufficient(ud)
           THEN /\ pc' = [pc EXCEPT ![s] = "denied"]
                /\ response' = [response EXCEPT ![s] =
                     ErrorResponse(402, "Insufficient credits. Please purchase more.")]
                /\ UNCHANGED <<calls, logged>>
           ELSE \E formOk \in FormOutcomes :
                  IF formOk
                  THEN /\ pc' = [pc EXCEPT ![s] = "crew"]
                       /\ calls' = [calls EXCEPT ![s] = @ \cup {"crew"}]
                       /\ UNCHANGED <<response, logged>>
                  ELSE Fail(s) /\ UNCHANGED calls
    /\ UNCHANGED <<envVars, grantVars, limitVars, dbVars, crew, vision, scrapeVars, opportunities, listings,
                   csv, debitVars>>

\* route:44: the analysis is there; scrapeSimilarItems is called
LaunchScraper(s) ==
    /\ StartScrape(s)
    /\ pc' = [pc EXCEPT ![s] = "scrape"]
    /\ calls' = [calls EXCEPT ![s] = @ \cup {"scraper"}]
    /\ UNCHANGED <<response, logged>>

\* mutant: analyzeItem is called and not awaited: the scraper starts while the
\* analysis is in flight
CrewReturnsNoAwait(s) ==
    /\ pc[s] = "crew"
    /\ "crew" \notin stalled
    /\ \E r \in CrewOutcomes :
        /\ crew' = [crew EXCEPT ![s] = r]
        /\ CASE r = "down" ->
                  Fail(s) /\ UNCHANGED <<calls, vision, siteState, results, errLog>>
             [] r = "analysis" ->
                  LaunchScraper(s) /\ UNCHANGED vision
             [] r = "noanalysis" ->
                  /\ StartScrape(s)
                  /\ pc' = [pc EXCEPT ![s] = "scrape"]
                  /\ calls' = [calls EXCEPT ![s] = @ \cup {"vision", "scraper"}]
                  /\ vision' = [vision EXCEPT ![s] = "inflight"]
                  /\ UNCHANGED <<response, logged>>
    /\ UNCHANGED <<envVars, grantVars, limitVars, dbVars, userData, scraped, opportunities, listings, csv,
                   debitVars>>

\* route:38-41: runCrewAI returns (or throws: the backend is down, or its reply
\* is no JSON); without an analysis in the reply, analyzeItem is called and awaited.
\* crew.ts:3: the fetch is given no timeout and no abort signal, so the await
\* does not settle while the backend does not answer
CrewReturns(s) ==
    /\ pc[s] = "crew"
    /\ "crew" \notin stalled
    /\ \E r \in CrewOutcomes :
        /\ crew' = [crew EXCEPT ![s] = r]
        /\ CASE r = "down" ->
                  Fail(s) /\ UNCHANGED <<calls, vision, siteState, results, errLog>>
             [] r = "analysis" ->
                  LaunchScraper(s) /\ UNCHANGED vision
             [] r = "noanalysis" ->
                  /\ pc' = [pc EXCEPT ![s] = "analyze"]
                  /\ calls' = [calls EXCEPT ![s] = @ \cup {"vision"}]
                  /\ vision' = [vision EXCEPT ![s] = "inflight"]
                  /\ UNCHANGED <<response, logged, siteState, results, errLog>>
    /\ UNCHANGED <<envVars, grantVars, limitVars, dbVars, userData, scraped, opportunities, listings, csv,
                   debitVars>>

\* route:41 / openrouter.ts:24-41: analyzeItem returns message.content (a text
\* that may be null, empty or not of the expected shape: "invalid") or throws.
\* openrouter.ts:3-6: the client is given no timeout, so the code puts no bound
\* on a call the service does not answer
AnalyzeReturns(s) ==
    /\ pc[s] = "analyze"
    /\ "vision" \notin stalled
    /\ \E r \in VisionOutcomes :
        /\ vision' = [vision EXCEPT ![s] = r]
        /\ IF r \in {"timeout", "error"}
           THEN Fail(s) /\ UNCHANGED <<calls, siteState, results, errLog>>
           ELSE LaunchScraper(s)
    /\ UNCHANGED <<envVars, grantVars, limitVars, dbVars, userData, crew, scraped, opportunities, listings,
                   csv, debitVars>>

\* route:48-61: generateListings returns the parsed reply; the CSV is built;
\* the debit is issued when the balance read at the gate was positive,
\* otherwise the history insert is issued at once
GenerateReturns(s) ==
    /\ pc[s] = "generate"
    /\ \E g \in GenReplies :
        /\ listings' = [listings EXCEPT ![s] = g]
        /\ csv' = [csv EXCEPT ![s] = Csv(g)]
    /\ IF HasCredit(userData[s])
       THEN /\ pc' = [pc EXCEPT ![s] = "debit"]
            /\ debitIssued' = [debitIssued EXCEPT ![s] = @ + 1]
            /\ calls' = [calls EXCEPT ![s] = @ \cup {"debit"}]
       ELSE /\ pc' = [pc EXCEPT ![s] = "insert"]
            /\ calls' = [calls EXCEPT ![s] = @ \cup {"insert"}]
            /\ UNCHANGED debitIssued
    /\ UNCHANGED <<envVars, grantVars, limitVars, dbVars, userData, crew, vision, scrapeVars, opportunities,
                   debitCommitted, response, logged>>

\* mutant: the debit is issued together with the generation call, so it is
\* out when the call fails
GenerateThrowsDebited(s) ==
    /\ pc[s] = "generate"
    /\ faults
    /\ Fail(s)
    /\ debitIssued' = [debitIssued EXCEPT ![s] = @ + 1]
    /\ calls' = [calls EXCEPT ![s] = @ \cup {"debit"}]
    /\ UNCHANGED <<envVars, grantVars, limitVars, dbVars, userData, crew, vision, scrapeVars, opportunities,
                   listings, csv, debitCommitted>>

\* openrouter.ts:47-53: the model call fails, or its reply is not JSON
GenerateThrows(s) ==
    /\ pc[s] = "generate"
    /\ faults
    /\ Fail(s)
    /\ UNCHANGED <<envVars, grantVars, limitVars, dbVars, userData, crew, vision, scrapeVars, opportunities,
                   listings, csv, calls, debitVars>>

\* route:57-61: the update returns; the ledger committed it or not (the
\* client returns { error } and does not throw); the history insert is issued
DebitReturns(s) ==
    /\ pc[s] = "debit"
    /\ \E ok \in BOOLEAN :
        IF ok
        THEN /\ credits' = DebitValue(userData[s])
             /\ debitCommitted' = [debitCommitted EXCEPT ![s] = @ + 1]
        ELSE UNCHANGED <<credits, debitCommitted>>
    /\ pc' = [pc EXCEPT ![s] = "insert"]
    /\ calls' = [calls EXCEPT ![s] = @ \cup {"insert"}]
    /\ UNCHANGED <<envVars, grantVars, limitVars, subStatus, initCredits, userData, crew, vision, scrapeVars,
                   opportunities, listings, csv, debitIssued, response, logged>>

\* mutant: the response is flagged when the scraper came back with nothing
SuccessResponseFlagged(s) ==
    [status |-> 200, error |-> "", stage |-> "",
     degraded |-> (scraped[s].similarItems = <<>>), listings |-> listings[s],
     csv |-> csv[s], recommendedPrice |-> scraped[s].recommendedPrice,
     arbitrage |-> ResponseArbitrage(scraped[s])]

\* route:69: NextResponse.json({ listings, csv, recommendedPrice, arbitrage })
SuccessResponse(s) ==
    [status |-> 200, error |-> "", stage |-> "", degraded |-> FALSE,
     listings |-> listings[s], csv |-> csv[s],
     recommendedPrice |-> scraped[s].recommendedPrice,
     arbitrage |-> ResponseArbitrage(scraped[s])]

\* mutant: a failed insert is thrown into the catch
InsertReturnsThrows(s) ==
    /\ pc[s] = "insert"
    /\ \E ok \in BOOLEAN :
        IF ok
        THEN /\ pc' = [pc EXCEPT ![s] = "completed"]
             /\ response' = [response EXCEPT ![s] = SuccessResponse(s)]
             /\ UNCHANGED logged
        ELSE Fail(s)
    /\ UNCHANGED <<envVars, grantVars, limitVars, dbVars, userData, crew, vision, scrapeVars, opportunities,
                   listings, csv, calls, debitVars>>

\* route:61-69: the insert returns; the response
InsertReturns(s) ==
    /\ pc[s] = "insert"
    /\ pc' = [pc EXCEPT ![s] = "completed"]
    /\ response' = [response EXCEPT ![s] = SuccessResponse(s)]
    /\ UNCHANGED <<envVars, grantVars, limitVars, dbVars, userData, crew, vision, scrapeVars, opportunities,
                   listings, csv, calls, debitVars, logged>>

----------------------------------------------------------------------------
(* add_credits (SQL) and the Stripe webhook *)

postVars == <<pc, userData, crew, vision, scrapeVars, opportunities, listings, csv,
              calls, debitVars, response, logged>>

\* add_credits: SELECT credits INTO current_credits FROM users WHERE id = user_id
\* (the function runs at the default isolation level, READ COMMITTED: the row
\* is not locked by the SELECT)
AddSelect(g) ==
    /\ gpc[g] = "call"
    /\ gread' = [gread EXCEPT ![g] = credits]
    /\ gpc' = [gpc EXCEPT ![g] = "update"]
    /\ UNCHANGED <<envVars, dbVars, postVars, gamt, limitVars>>

\* add_credits: UPDATE users SET credits = current_credits + amount
AddUpdate(g) ==
    /\ gpc[g] = "update"
    /\ credits' = gread[g] + gamt[g]
    /\ gpc' = [gpc EXCEPT ![g] = "done"]
    /\ UNCHANGED <<envVars, subStatus, initCredits, postVars, gread, gamt, limitVars>>

\* POST_webhook, a paid checkout in payment mode: the argument of the update
\* is supabase.row(userId).credits + 1, and the client has no method row: the
\* expression throws before any request is made, and the handler, which has
\* no catch around it, ends with the exception
WebhookPaid(g) ==
    /\ gpc[g] = "hook"
    /\ gpc' = [gpc EXCEPT ![g] = "hook_failed"]
    /\ UNCHANGED <<envVars, dbVars, postVars, gread, gamt, limitVars>>

----------------------------------------------------------------------------
(* The triggers on listings (SQL): each insert is a transaction at the        *)
(* default isolation level, READ COMMITTED                                    *)

\* check_subscription_limit, BEFORE INSERT: current_usage and max_listings are
\* read from what is committed; the exception is raised when
\* current_usage >= max_listings AND max_listings > 0
LimitReached(used, max) == used >= max /\ max > 0

InsertCheck(i) ==
    /\ lpc[i] = "begin"
    /\ lpc' = [lpc EXCEPT ![i] = IF LimitReached(listingsUsed, monthlyListings)
                                 THEN "rejected" ELSE "checked"]
    /\ UNCHANGED <<envVars, dbVars, postVars, grantVars, listingsUsed, monthlyListings>>

\* track_monthly_usage, AFTER INSERT, and the commit: listings_used =
\* subscription_usage.listings_used + 1 on the latest row (the upsert waits for
\* the row lock of a concurrent increment), visible to others at the commit
InsertCommit(i) ==
    /\ lpc[i] = "checked"
    /\ listingsUsed' = listingsUsed + 1
    /\ lpc' = [lpc EXCEPT ![i] = "done"]
    /\ UNCHANGED <<envVars, dbVars, postVars, grantVars, monthlyListings>>

----------------------------------------------------------------------------
(* Specifications *)

\* no add_credits call, no webhook delivery
NoGrants ==
    /\ gpc = [g \in Grants |-> "idle"]
    /\ gread = [g \in Grants |-> 0]
    /\ gamt = [g \in Grants |-> 0]

\* no insert into listings
NoInserts ==
    /\ lpc = [i \in Inserts |-> "idle"]
    /\ listingsUsed = 0
    /\ monthlyListings = 0

InitProcs ==
    /\ userData = [s \in Subs |-> NullData]
    /\ crew = [s \in Subs |-> "none"]
    /\ vision = [s \in Subs |-> "none"]
    /\ siteState = [p \in Procs |-> AllPending]
    /\ results = [p \in Procs |-> <<>>]
    /\ errLog = [p \in Procs |-> {}]
    /\ scraped = [p \in Procs |-> NoScrape]
    /\ opportunities = <<>>
    /\ listings = [s \in Subs |-> <<>>]
    /\ csv = [s \in Subs |-> <<>>]
    /\ calls = [s \in Subs |-> {}]
    /\ debitIssued = [s \in Subs |-> 0]
    /\ debitCommitted = [s \in Subs |-> 0]
    /\ response = [s \in Subs |-> NoResponse]
    /\ logged = [s \in Subs |-> {}]

\* either one submission runs against services that may fail, or the user's
\* NumSubs submissions run concurrently against services that answer
Init ==
    /\ stalled = {}
    /\ \/ /\ faults = TRUE
          /\ web \in SubmissionWebs
          /\ pc = [p \in Procs |-> IF p = 1 THEN "auth" ELSE "idle"]
       \/ /\ faults = FALSE
          /\ web = ScenarioWeb
          /\ pc = [p \in Procs |-> IF p \in Subs THEN "auth" ELSE "idle"]
    /\ credits \in 0..MaxCredits
    /\ subStatus \in {"free", "unlimited"}
    /\ initCredits = credits
    /\ InitProcs
    /\ NoGrants
    /\ NoInserts

Next ==
    \/ \E s \in Subs :
        \/ Auth(s)
        \/ CreditCheck(s)
        \/ CrewReturns(s)
        \/ AnalyzeReturns(s)
        \/ GenerateReturns(s)
        \/ GenerateThrows(s)
        \/ DebitReturns(s)
        \/ InsertReturns(s)
    \/ \E p \in Procs :
        \/ SiteResponds(p)
        \/ DelayElapsed(p)
        \/ SiteFails(p)

Spec == Init /\ [][Next]_vars

\* one findArbitrage job against any web
InitScrape ==
    /\ web \in [SiteIdx -> Replies]
    /\ faults = TRUE
    /\ stalled = {}
    /\ credits = 0
    /\ subStatus = "free"
    /\ initCredits = 0
    /\ pc = [p \in Procs |-> IF p = ArbJob THEN "arb_call" ELSE "idle"]
    /\ InitProcs
    /\ NoGrants
    /\ NoInserts

NextScrape ==
    \/ ArbCall
    \/ \E p \in Procs :
        \/ SiteResponds(p)
        \/ DelayElapsed(p)
        \/ SiteFails(p)

SpecScrape == InitScrape /\ [][NextScrape]_vars

\* the user's NumSubs submissions (an unlimited plan, balance 0) at the point
\* where the crew has answered with an analysis and the scraper has returned
\* with every site down: generateListings is in flight for each of them and
\* may return any reply
InitCsv ==
    /\ faults = TRUE
    /\ stalled = {}
    /\ web = AllDown
    /\ credits = 0
    /\ subStatus = "unlimited"
    /\ initCredits = 0
    /\ pc = [p \in Procs |-> IF p \in Subs THEN "generate" ELSE "idle"]
    /\ userData = [s \in Subs |-> RowData]
    /\ crew = [s \in Subs |-> "analysis"]
    /\ vision = [s \in Subs |-> "none"]
    /\ siteState = [p \in Procs |-> IF p \in Subs THEN [k \in SiteIdx |-> "failed"]
                                    ELSE AllPending]
    /\ results = [p \in Procs |-> <<>>]
    /\ errLog = [p \in Procs |-> IF p \in Subs THEN SiteIdx ELSE {}]
    /\ scraped = [p \in Procs |-> IF p \in Subs THEN ScrapeResult(<<>>) ELSE NoScrape]
    /\ opportunities = <<>>
    /\ listings = [s \in Subs |-> <<>>]
    /\ csv = [s \in Subs |-> <<>>]
    /\ calls = [s \in Subs |-> {"crew", "scraper", "generate"}]
    /\ debitIssued = [s \in Subs |-> 0]
    /\ debitCommitted = [s \in Subs |-> 0]
    /\ response = [s \in Subs |-> NoResponse]
    /\ logged = [s \in Subs |-> {}]
    /\ NoGrants
    /\ NoInserts

NextCsv ==
    \E s \in Subs :
        \/ GenerateReturns(s)
        \/ GenerateThrows(s)
        \/ InsertReturns(s)

SpecCsv == InitCsv /\ [][NextCsv]_vars

\* the services the code calls without a timeout of its own and that the
\* submission waits for before the scraper: the CrewAI backend, the vision model
Stallable == {"crew", "vision"}

\* one submission against services that may fail and may never answer; the
\* sites are all down, or the first answers with a page without items and the
\* others fail (what a page holds does not change which step of the handler
\* comes next)
InitLive ==
    /\ faults = TRUE
    /\ stalled \in SUBSET Stallable
    /\ web \in {AllDown,
                [k \in SiteIdx |-> IF k = 1 THEN Ok(PageEmpty) ELSE HttpError]}
    /\ pc = [p \in Procs |-> IF p = 1 THEN "auth" ELSE "idle"]
    /\ credits \in 0..MaxCredits
    /\ subStatus \in {"free", "unlimited"}
    /\ initCredits = credits
    /\ InitProcs
    /\ NoGrants
    /\ NoInserts

\* the steps of the handler of submission s: a sequential process, of which
\* at most one step is enabled at a time
SubStep(s) ==
    \/ Auth(s)
    \/ CreditCheck(s)
    \/ CrewReturns(s)
    \/ AnalyzeReturns(s)
    \/ SiteResponds(s)
    \/ DelayElapsed(s)
    \/ SiteFails(s)
    \/ GenerateReturns(s)
    \/ GenerateThrows(s)
    \/ DebitReturns(s)
    \/ InsertReturns(s)

\* the event loop runs a continuation once the call it awaits has settled, and
\* a service that is not stalled settles every call (a site request at the
\* latest when its 5 s timeout fires)
Fairness == \A s \in Subs : WF_vars(SubStep(s))

SpecLive == InitLive /\ [][Next]_vars /\ Fairness

\* one submission of the user, against services that answer, while
\* add_credits calls and paid-checkout deliveries for the same user run
InitGrant ==
    /\ faults = FALSE
    /\ stalled = {}
    /\ web = ScenarioWeb
    /\ pc = [p \in Procs |-> IF p = 1 THEN "auth" ELSE "idle"]
    /\ credits \in 0..MaxCredits
    /\ subStatus = "free"
    /\ initCredits = credits
    /\ InitProcs
    /\ gpc \in [Grants -> {"call", "hook"}]
    /\ gamt \in [Grants -> 1..MaxAmount]
    /\ \A g \in Grants : gpc[g] = "hook" => gamt[g] = 1
    /\ gread = [g \in Grants |-> 0]
    /\ NoInserts

NextGrant ==
    \/ \E s \in Subs :
        \/ Auth(s)
        \/ CreditCheck(s)
        \/ CrewReturns(s)
        \/ SiteResponds(s)
        \/ DelayElapsed(s)
        \/ SiteFails(s)
        \/ GenerateReturns(s)
        \/ DebitReturns(s)
        \/ InsertReturns(s)
    \/ \E g \in Grants :
        \/ AddSelect(g)
        \/ AddUpdate(g)
        \/ WebhookPaid(g)

SpecGrant == InitGrant /\ [][NextGrant]_vars

\* the user's concurrent inserts into listings, on a plan with a monthly limit
\* (monthly_listings > 0) or without one (0), with a usage within the limit
InitLimit ==
    /\ faults = FALSE
    /\ stalled = {}
    /\ web = ScenarioWeb
    /\ pc = [p \in Procs |-> "idle"]
    /\ credits = 0
    /\ subStatus = "free"
    /\ initCredits = 0
    /\ InitProcs
    /\ NoGrants
    /\ lpc = [i \in Inserts |-> "begin"]
    /\ monthlyListings \in 0..MaxLimit
    /\ listingsUsed \in 0..MaxLimit
    /\ monthlyListings > 0 => listingsUsed <= monthlyListings

NextLimit == \E i \in Inserts : InsertCheck(i) \/ InsertCommit(i)

SpecLimit == InitLimit /\ [][NextLimit]_vars

----------------------------------------------------------------------------
(* Vocabulary of the properties *)

Terminal == {"unauthorized", "denied", "failed", "completed"}

\* the ledger read of submission s has returned
Checked(s) == pc[s] \notin {"idle", "auth", "ledger", "unauthorized"}

\* scrapeSimilarItems has returned to process p
ScrapeDone(p) == pc[p] \in {"arb_done", "generate", "debit", "insert", "completed"}
                 \/ (pc[p] = "failed" /\ p \in Subs /\ "generate" \in calls[p])

AllSitesFailed(p) == \A k \in SiteIdx : siteState[p][k] = "failed"

\* a price string that reads as a number greater than 0
ValidPrice(str) ==
    LET v == ParseFloat(RemoveFirst(str, "$"))
    IN  v.kind = "number" /\ v.num > 0

\* the value of a valid price string in cents (the pages hold cents at most)
Cents(str) ==
    LET v == ParseFloat(RemoveFirst(str, "$"))
    IN  (v.num * 100) \div v.den

RECURSIVE SumCents(_, _)
SumCents(items, n) ==
    IF n = 0 THEN 0
    ELSE SumCents(items, n - 1)
           + (IF ValidPrice(items[n].price) THEN Cents(items[n].price) ELSE 0)

ValidCount(items) == Cardinality({i \in 1..Len(items) : ValidPrice(items[i].price)})

\* rp is the arithmetic mean of the valid prices of items (there is one)
IsMeanOfValid(rp, items) ==
    /\ rp.kind = "number"
    /\ rp.num * 100 * ValidCount(items) = SumCents(items, Len(items)) * rp.den

\* what the sites that answered so far have on their pages, site after site
RECURSIVE Collected(_, _)
Collected(p, k) ==
    IF k = 0 THEN <<>>
    ELSE Collected(p, k - 1)
           \o (IF siteState[p][k] \in {"delay", "ok"}
               THEN Extract(sites[k], web[k].items) ELSE <<>>)

\* a value that is not there (null, undefined, no field)
Absent == [kind |-> "absent", num |-> 0, den |-> 1]

----------------------------------------------------------------------------
(* C1 - C10 *)

\* C1: a submission whose ledger read shows a balance below 1 and no unlimited
\* plan ends denied with the 402 response, has made no crew, vision, scraper or
\* generation call and has issued no debit.
C1_DeniedDoesNothing ==
    \A s \in Subs :
        ( /\ Checked(s)
          /\ userData[s].row
          /\ userData[s].credits < 1
          /\ userData[s].sub_status # "unlimited" )
        => /\ pc[s] = "denied"
           /\ response[s].status = 402
           /\ calls[s] = {}
           /\ debitIssued[s] = 0
           /\ debitCommitted[s] = 0

C1_Witness ==
    \E s \in Subs :
        /\ pc[s] = "denied"
        /\ userData[s].row
        /\ userData[s].credits = 0
        /\ userData[s].sub_status = "free"

\* C2 as stated: every completed submission that was admitted by its balance or
\* by the unlimited flag has exactly one committed debit.
C2_Original ==
    \A s \in Subs :
        (pc[s] = "completed" /\ userData[s].row) => debitCommitted[s] = 1

\* C2 amended: a completed submission has issued exactly one debit update when
\* the balance it read at the gate was positive and none otherwise; the ledger
\* commits no more updates than were issued.
C2_DebitIffPositiveBalance ==
    \A s \in Subs :
        pc[s] = "completed" =>
            /\ debitIssued[s] =
                 (IF userData[s].row /\ userData[s].credits > 0 THEN 1 ELSE 0)
            /\ debitCommitted[s] <= debitIssued[s]

C2_Witness ==
    \E s, t \in Subs :
        /\ pc[s] = "completed" /\ pc[t] = "completed"
        /\ userData[s].credits = 1 /\ debitIssued[s] = 1
        /\ userData[t].credits = 0 /\ userData[t].sub_status = "unlimited"
        /\ debitIssued[t] = 0

\* C3 as stated: once the user's submissions have all ended, the balance is
\* lower than before by one for every completed submission whose debit the
\* ledger committed (no debit is lost or doubled).
C3_Claim ==
    (\A s \in Subs : pc[s] \in Terminal) =>
        credits = initCredits
                    - Cardinality({s \in Subs : pc[s] = "completed"
                                                /\ debitCommitted[s] = 1})

\* C4 as stated: a vision analysis that fails (timeout, upstream error or
\* invalid response) ends the submission in Failed, with no generation call and
\* no debit (here for a user admitted by a balance of at least 1).
C4_Claim ==
    \A s \in Subs :
        ( /\ vision[s] \in {"timeout", "error", "invalid"}
          /\ userData[s].row
          /\ userData[s].credits >= 1 ) =>
            /\ pc[s] = "failed"
            /\ "generate" \notin calls[s]
            /\ debitIssued[s] = 0

\* C5 as stated: a completed submission all of whose sites failed, with a good
\* analysis, answers non-empty listings, an empty arbitrage list and a
\* recommendedPrice that is the estimate of the analysis (here for a user
\* admitted by a balance of at least 1).
C5_Claim ==
    \A s \in Subs :
        ( /\ pc[s] = "completed"
          /\ userData[s].row
          /\ userData[s].credits >= 1
          /\ AllSitesFailed(s)
          /\ Analysis(s) \in {"crew", "ok"} )
        => /\ response[s].status = 200
           /\ response[s].listings # <<>>
           /\ response[s].arbitrage = <<>>
           /\ response[s].recommendedPrice = AnalysisEstimate(Analysis(s))

\* C6 as stated: the scraper is launched together with the analysis, so while
\* the analysis is in flight the scraper has been launched.
C6_Original ==
    \A s \in Subs : pc[s] \in {"crew", "analyze"} => "scraper" \in calls[s]

\* C6 amended: the scraper is called only after the analysis has settled: no
\* state has the scraper launched and the analysis missing or in flight.
C6_ScraperAfterAnalysis ==
    \A s \in Subs :
        "scraper" \in calls[s] =>
            /\ Analysis(s) # "none"
            /\ vision[s] # "inflight"
            /\ crew[s] # "none"

C6_Witness ==
    \E s \in Subs :
        /\ pc[s] = "scrape"
        /\ vision[s] = "ok"
        /\ \E k \in SiteIdx : siteState[s][k] = "inflight"

\* C7 as stated: the sites run concurrently: while one site's request is in
\* flight, no other site is still waiting for its request to be issued.
C7_Original ==
    \A p \in Procs : \A k \in SiteIdx :
        siteState[p][k] = "inflight" =>
            \A j \in SiteIdx : siteState[p][j] # "pending"

\* C7 amended: the sites are queried one after the other in the order of the
\* list: at most one site is being queried, and a site's request is issued only
\* when every earlier site has answered (and its delay is over) or failed.
C7_SitesSequential ==
    \A p \in Procs :
        /\ Cardinality({k \in SiteIdx : siteState[p][k] \in {"inflight", "delay"}}) <= 1
        /\ \A k \in SiteIdx :
              siteState[p][k] # "pending" =>
                  \A j \in 1..(k - 1) : siteState[p][j] \in {"ok", "failed"}

C7_Witness ==
    \E p \in Procs :
        /\ siteState[p][1] = "failed"
        /\ web[1] = Timeout
        /\ siteState[p][2] = "inflight"
        /\ siteState[p][3] = "pending"

\* C8: a failed request marks only its own site: the comparables collected
\* from the sites that answered are all in results, the failed sites are
\* exactly the ones logged and exactly the ones whose request failed, the loop
\* goes on to the next site, and the call returns its result without raising.
C8_FailureAbsorbed ==
    \A p \in Procs :
        /\ results[p] = Collected(p, Len(sites))
        /\ errLog[p] = {k \in SiteIdx : siteState[p][k] = "failed"}
        /\ \A k \in SiteIdx :
              /\ siteState[p][k] = "failed" => web[k].kind # "ok"
              /\ (siteState[p][k] = "failed" /\ k < Len(sites))
                    => siteState[p][k + 1] # "pending"
        /\ (p = ArbJob => pc[p] # "failed")
        /\ (\A k \in SiteIdx : siteState[p][k] \in {"ok", "failed"})
              => /\ ScrapeDone(p)
                 /\ scraped[p].similarItems = results[p]

C8_Witness ==
    \E p \in Procs :
        /\ pc[p] = "arb_done"
        /\ siteState[p][1] = "ok" /\ web[1] = Ok(PageB)
        /\ siteState[p][2] = "failed"
        /\ siteState[p][3] = "ok" /\ web[3] = Ok(PageCheap)
        /\ Len(scraped[p].similarItems) >= 3

\* C9 as stated: every entry of the returned list has a price that is a number
\* greater than 0.
C9_Original ==
    \A p \in Procs :
        ScrapeDone(p) =>
            \A i \in 1..Len(scraped[p].similarItems) :
                ValidPrice(scraped[p].similarItems[i].price)

\* C9 amended: the returned list holds every scraped entry with its price
\* string as scraped, the entries without a positive parseable price included;
\* those entries are left out of the average only.
C9_InvalidKeptNotAveraged ==
    \A p \in Procs :
        ScrapeDone(p) =>
            LET items == scraped[p].similarItems
            IN  /\ items = Collected(p, Len(sites))
                /\ \A k \in SiteIdx :
                      siteState[p][k] = "ok" =>
                          \A i \in 1..Min(Len(web[k].items), TopLimit) :
                              \E n \in 1..Len(items) :
                                  /\ items[n].site = sites[k]
                                  /\ items[n].title = web[k].items[i].title
                                  /\ items[n].price = web[k].items[i].price
                /\ ValidCount(items) > 0
                      => IsMeanOfValid(scraped[p].recommendedPrice, items)

C9_Witness ==
    \E p \in Procs :
        /\ ScrapeDone(p)
        /\ \E i, j \in 1..Len(scraped[p].similarItems) :
              /\ scraped[p].similarItems[i].price = SNA
              /\ ValidPrice(scraped[p].similarItems[j].price)

\* C10 as stated: the aggregate is the mean of the valid prices and is absent
\* when there is none.
C10_Original ==
    \A p \in Procs :
        ScrapeDone(p) =>
            LET items == scraped[p].similarItems
                rp    == scraped[p].recommendedPrice
            IN  IF ValidCount(items) = 0 THEN rp = Absent
                ELSE IsMeanOfValid(rp, items)

\* C10 amended: recommendedPrice is the arithmetic mean of the prices that
\* read as a number greater than 0, and it is the number 0 when no entry has
\* one; for the prices 100 and 15 it is 57.5.
C10_MeanOrZero ==
    \A p \in Procs :
        ScrapeDone(p) =>
            LET items == scraped[p].similarItems
                rp    == scraped[p].recommendedPrice
            IN  /\ IF ValidCount(items) = 0 THEN rp = Zero
                   ELSE IsMeanOfValid(rp, items) /\ rp.num > 0
                /\ ( /\ Len(items) = 2
                     /\ items[1].price = S100
                     /\ items[2].price = S15 )
                      => rp = Rat(115, 2)

C10_Witness ==
    \E p \in Procs :
        /\ pc[p] = "arb_done"
        /\ Len(scraped[p].similarItems) = 2
        /\ scraped[p].similarItems[1].price = S100
        /\ scraped[p].similarItems[2].price = S15
        /\ scraped[p].recommendedPrice = Rat(115, 2)

----------------------------------------------------------------------------
(* C11 - C20 *)

\* the price string reads as a number below tn/td of the aggregate rp
BelowCutoff(str, rp, tn, td) ==
    LET v == ParseFloat(RemoveFirst(str, "$"))
    IN  /\ v.kind = "number"
        /\ rp.kind = "number"
        /\ v.num * rp.den * td < rp.num * tn * v.den

\* the entries of items whose price is below 0.70 of the aggregate rp
SignalsOf(items, rp) ==
    LET Below(item) == BelowCutoff(item.price, rp, 7, 10)
    IN  SelectSeq(items, Below)

\* C11 as stated: the arbitrage list in the response of a completed submission
\* holds exactly the comparables of that run whose price is below 0.70 of the
\* run's aggregate.
C11_Claim ==
    \A s \in Subs :
        pc[s] = "completed" =>
            response[s].arbitrage =
                SignalsOf(scraped[s].similarItems, scraped[s].recommendedPrice)

\* the thresholds and the aggregates the filter is tried with
Thresholds == {Rat(n, 10) : n \in {0, 3, 5, 7, 9, 10}}
Aggregates == {Zero, Rat(115, 2), Rat(100, 1)}

\* the positions of the entries of items that the filter flags at threshold t
SignalIdx(items, rp, t) ==
    {i \in 1..Len(items) : IsOpportunityAt(items[i], rp, t)}

C13_Original ==
    /\ \A k \in SiteIdx : siteState[ArbJob][k] = "pending"
    /\ pc[ArbJob] # "failed"
    /\ (pc[ArbJob] = "arb_done" /\ ValidCount(scraped[ArbJob].similarItems) = 0)
          => opportunities = <<>>

\* C13 amended: findArbitrage runs a scraping batch of its own, so when it has
\* returned a request to every site has been answered or has failed; its steps
\* change nothing of the ledger or of a submission; it never fails; and it
\* returns exactly the scraped entries whose price reads as a number below
\* 0.70 of recommendedPrice, hence the empty list when no entry is (nothing
\* scraped included).
C13_ScrapesThenFilters ==
    /\ [](pc[ArbJob] = "arb_done" =>
            /\ \A k \in SiteIdx : siteState[ArbJob][k] \in {"ok", "failed"}
            /\ opportunities =
                 SignalsOf(scraped[ArbJob].similarItems,
                           scraped[ArbJob].recommendedPrice)
            /\ (scraped[ArbJob].similarItems = <<>> => opportunities = <<>>))
    /\ [](pc[ArbJob] # "failed")
    /\ [][UNCHANGED <<dbVars, userData, listings, csv, calls, debitVars,
                      response, logged>>]_vars

\* a run that queried every site, one of them failing, scraped comparables and
\* returned no signal
C13_Witness ==
    /\ pc[ArbJob] = "arb_done"
    /\ errLog[ArbJob] # {}
    /\ scraped[ArbJob].similarItems # <<>>
    /\ scraped[ArbJob].recommendedPrice # Zero
    /\ opportunities = <<>>

\* the CSV of submission s has been built
Exported(s) == pc[s] \in {"debit", "insert", "completed"}

\* the lines of a text: its parts between the line feeds
RECURSIVE SplitLines(_)
SplitLines(s) ==
    IF \A i \in 1..Len(s) : s[i] # LF THEN <<s>>
    ELSE LET n == CHOOSE i \in 1..Len(s) :
                     s[i] = LF /\ \A j \in 1..(i - 1) : s[j] # LF
         IN  <<SubSeq(s, 1, n - 1)>> \o SplitLines(SubSeq(s, n + 1, Len(s)))

\* the position of a platform in the declared list
PlatformIdx(name) == CHOOSE i \in 1..Len(platforms) : platforms[i] = name

SameEntries(l1, l2) ==
    {l1[i] : i \in 1..Len(l1)} = {l2[i] : i \in 1..Len(l2)}

\* C14 as stated: the rows come in the declared order of the marketplaces,
\* whatever the key order of the mapping: two mappings with the same entries
\* export to the same output.
C14_Original ==
    \A s, t \in Subs :
        (Exported(s) /\ Exported(t) /\ SameEntries(listings[s], listings[t]))
            => /\ csv[s] = csv[t]
               /\ \A i, j \in 1..Len(listings[s]) :
                     i < j => PlatformIdx(SplitLines(csv[s])[i + 1][1])
                                < PlatformIdx(SplitLines(csv[s])[j + 1][1])

\* C14 amended: the export is the header line Platform,Title,Description,
\* Price,Condition followed by one row per entry of the listings mapping, the
\* rows in the order of the mapping's keys: the k-th row is the row of the
\* k-th entry.  (An empty mapping exports the header and an empty line.)
C14_RowsInKeyOrder ==
    \A s \in Subs :
        Exported(s) =>
            LET lines == SplitLines(csv[s])
            IN  /\ lines[1] = <<"Platform", ",", "Title", ",", "Description", ",",
                                "Price", ",", "Condition">>
                /\ Len(lines) = (IF listings[s] = <<>> THEN 2 ELSE 1 + Len(listings[s]))
                /\ listings[s] = <<>> => lines[2] = <<>>
                /\ \A k \in 1..Len(listings[s]) :
                      /\ lines[k + 1][1] = listings[s][k].platform
                      /\ lines[k + 1][2] = ","

\* two submissions whose mappings hold the same entries in different key
\* order, exported to different outputs
C14_Witness ==
    \E s, t \in Subs :
        /\ pc[s] = "completed" /\ pc[t] = "completed"
        /\ Len(listings[s]) = Len(platforms)
        /\ SameEntries(listings[s], listings[t])
        /\ listings[s] # listings[t]
        /\ response[s].csv # response[t].csv

\* Reading a line under the standard CSV rules (RFC 4180): fields are
\* separated by commas; a field that starts with a double quote runs to its
\* closing quote, a doubled quote inside it standing for one quote; a quote
\* inside an unquoted field, or anything but a comma after a closing quote,
\* is malformed.  The result is the sequence of the fields, or Malformed.
Malformed == <<>>

RECURSIVE ParseFrom(_, _, _, _, _)
ParseFrom(s, i, mode, cur, fields) ==
    IF i > Len(s)
    THEN IF mode = "inq" THEN Malformed ELSE fields \o <<cur>>
    ELSE LET c == s[i]
         IN  CASE mode = "start" ->
                    IF c = "," THEN ParseFrom(s, i + 1, "start", <<>>, fields \o <<cur>>)
                    ELSE IF c = "\"" THEN ParseFrom(s, i + 1, "inq", <<>>, fields)
                    ELSE ParseFrom(s, i + 1, "unq", <<c>>, fields)
               [] mode = "unq" ->
                    IF c = "," THEN ParseFrom(s, i + 1, "start", <<>>, fields \o <<cur>>)
                    ELSE IF c = "\"" THEN Malformed
                    ELSE ParseFrom(s, i + 1, "unq", cur \o <<c>>, fields)
               [] mode = "inq" ->
                    IF c # "\"" THEN ParseFrom(s, i + 1, "inq", cur \o <<c>>, fields)
                    ELSE IF i < Len(s) /\ s[i + 1] = "\""
                    THEN ParseFrom(s, i + 2, "inq", cur \o <<c>>, fields)
                    ELSE ParseFrom(s, i + 1, "afterq", cur, fields)
               [] mode = "afterq" ->
                    IF c = "," THEN ParseFrom(s, i + 1, "start", <<>>, fields \o <<cur>>)
                    ELSE Malformed

ParseCsvLine(s) == ParseFrom(s, 1, "start", <<>>, <<>>)

\* the five fields of a draft as the export writes them (the price with its
\* currency sign)
FieldsOf(d) ==
    <<(<<d.platform>>), d.title, d.description, <<"$">> \o d.price, d.condition>>

\* C15 as stated: every exported row reads back, under the standard CSV rules,
\* as exactly the five fields (platform, title, description, price, condition)
\* of its draft.
C15_Claim ==
    \A s \in Subs :
        Exported(s) =>
            \A k \in 1..Len(listings[s]) :
                ParseCsvLine(SplitLines(csv[s])[k + 1]) = FieldsOf(listings[s][k])

\* C17 as stated: a completed submission carries, for every target
\* marketplace, a draft with a non-empty title and a non-empty description;
\* there is no completed submission with an empty or partial listings mapping.
C17_Claim ==
    \A s \in Subs :
        pc[s] = "completed" =>
            /\ response[s].listings = listings[s]
            /\ \A i \in 1..Len(platforms) :
                  \E k \in 1..Len(listings[s]) :
                      /\ listings[s][k].platform = platforms[i]
                      /\ listings[s][k].title # <<>>
                      /\ listings[s][k].description # <<>>

StageTags == {"CreditDenied", "AnalysisFailed", "GenerationFailed", "ExportFailed"}

\* C18 as stated: a submission that ended in a failure has returned an error
\* that carries a stage tag naming the stage that failed, and a message.
C18_Original ==
    \A s \in Subs :
        pc[s] \in {"denied", "failed"} =>
            /\ response[s].stage \in StageTags
            /\ response[s].error # ""

\* C18 amended: a submission that ended in a failure has returned exactly one
\* error response, whose body is a message and nothing else: status 401
\* "Unauthorized" without a user, status 402 for the credit denial, and status
\* 500 "Processing failed" for every failure after the gate, whatever the
\* stage; no stage tag, no listings, no csv.  Nothing is returned before the
\* end and a returned response never changes.
C18_MessageAndStatusOnly ==
    /\ [](\A s \in Subs :
            /\ pc[s] = "unauthorized" =>
                  response[s].status = 401 /\ response[s].error = "Unauthorized"
            /\ pc[s] = "denied" =>
                  /\ response[s].status = 402
                  /\ response[s].error = "Insufficient credits. Please purchase more."
            /\ pc[s] = "failed" =>
                  response[s].status = 500 /\ response[s].error = "Processing failed"
            /\ pc[s] \in {"unauthorized", "denied", "failed"} =>
                  /\ response[s].stage = ""
                  /\ response[s].listings = <<>>
                  /\ response[s].csv = <<>>
                  /\ response[s].arbitrage = <<>>
            /\ pc[s] \notin Terminal => response[s].status = 0)
    /\ [][\A s \in Subs : response[s].status # 0 => response'[s] = response[s]]_vars

\* a submission whose generation call failed, after a vision analysis, and
\* that answered the generic 500
C18_Witness ==
    /\ pc[1] = "failed"
    /\ response[1].status = 500
    /\ "generate" \in calls[1]
    /\ crew[1] = "noanalysis" /\ vision[1] = "invalid"

\* C19 as stated: a completed submission is marked as a partial failure, its
\* response carrying the degraded flag, exactly when every site of its
\* scraping failed; the response is a success, not an error.
C19_Original ==
    \A s \in Subs :
        pc[s] = "completed" =>
            /\ response[s].status = 200
            /\ response[s].degraded = AllSitesFailed(s)

\* C19 amended: a submission all of whose sites failed while analysis and
\* generation succeeded completes with the ordinary 200 response (listings,
\* csv, recommendedPrice 0, empty arbitrage list) and no error; no completed
\* submission is marked as a partial failure or carries a degraded flag.
C19_SuccessUnmarked ==
    \A s \in Subs :
        /\ pc[s] = "completed" =>
              response[s].status = 200 /\ response[s].degraded = FALSE
        /\ (AllSitesFailed(s) /\ pc[s] \in {"generate", "debit", "insert"})
              => response[s] = NoResponse
        /\ (AllSitesFailed(s) /\ pc[s] = "completed") =>
              /\ response[s].error = ""
              /\ response[s].listings = listings[s]
              /\ response[s].csv = csv[s]
              /\ response[s].recommendedPrice = Zero
              /\ response[s].arbitrage = <<>>

C19_Witness ==
    \E s \in Subs :
        /\ pc[s] = "completed"
        /\ AllSitesFailed(s)
        /\ errLog[s] = SiteIdx
        /\ Len(response[s].listings) = Len(platforms)
        /\ response[s].status = 200

\* the debit update of submission s has returned without being committed
DebitFailed(s) ==
    /\ pc[s] \in {"insert", "completed"}
    /\ debitIssued[s] = 1
    /\ debitCommitted[s] = 0

\* C20 as stated: when the debit fails after the listings were generated, the
\* failure is logged, and the listings and the csv are returned in a
\* successful response.
C20_Claim ==
    \A s \in Subs :
        DebitFailed(s) =>
            /\ logged[s] # {}
            /\ pc[s] = "completed" =>
                  /\ response[s].status = 200
                  /\ response[s].listings = listings[s]
                  /\ response[s].csv = csv[s]

----------------------------------------------------------------------------
(* C21 - C30 *)

\* a web whose sites all answer a page without comparables
AllEmptyWeb == [k \in SiteIdx |-> Ok(PageEmpty)]

\* what a batch over the web w returns once every site has answered or failed
RECURSIVE WebItems(_, _)
WebItems(w, k) ==
    IF k = 0 THEN <<>>
    ELSE WebItems(w, k - 1)
           \o (IF w[k].kind = "ok" THEN Extract(sites[k], w[k].items) ELSE <<>>)

ReturnOver(w) == ScrapeResult(WebItems(w, Len(sites)))

\* C21 as stated: the value the scraper returns has an entry per site telling
\* whether the site answered, and the value of a batch whose sites all failed
\* differs from the value of a batch whose sites answered without comparables.
C21_Original ==
    \A p \in Procs :
        ScrapeDone(p) =>
            /\ "sites" \in DOMAIN scraped[p]
            /\ AllSitesFailed(p) => scraped[p] # ReturnOver(AllEmptyWeb)

\* C21 amended: the scraper returns the comparables and recommendedPrice and
\* nothing else; which sites failed is written to the log only.  A batch whose
\* sites all failed returns the empty list and recommendedPrice 0, the very
\* value of a batch whose sites answered without comparables.
C21_NoSiteMap ==
    \A p \in Procs :
        ScrapeDone(p) =>
            /\ DOMAIN scraped[p] = {"similarItems", "recommendedPrice"}
            /\ scraped[p] = ReturnOver(web)
            /\ AllSitesFailed(p) =>
                  /\ errLog[p] = SiteIdx
                  /\ scraped[p] = [similarItems |-> <<>>, recommendedPrice |-> Zero]
                  /\ scraped[p] = ReturnOver(AllEmptyWeb)

C21_Witness ==
    /\ pc[ArbJob] = "arb_done"
    /\ AllSitesFailed(ArbJob)
    /\ web[1] = Timeout /\ web[2] = HttpError
    /\ scraped[ArbJob].similarItems = <<>>

\* C22 as stated: the Listing Generator is called only with an analysis that
\* has the expected shape: a vision reply of another shape (empty and null
\* content included) never reaches it.
C22_Claim ==
    \A s \in Subs :
        "generate" \in calls[s] =>
            /\ Analysis(s) \in {"crew", "ok"}
            /\ vision[s] # "invalid"

C24_Claim ==
    \A s \in Subs :
        crew[s] \in {"down", "noanalysis"} =>
            /\ "vision" \in calls[s]
            /\ vision[s] # "none"

C27_Claim ==
    \A s \in Subs :
        calls[s] # {} =>
            /\ userData[s].row
            /\ (userData[s].credits >= 1 \/ userData[s].sub_status = "unlimited")

\* C28: the balance is never negative, and never above the initial one,
\* whatever the interleaving of the user's submissions.
C28_BalanceNotNegative ==
    /\ credits >= 0
    /\ credits <= initCredits
    /\ \A s \in Subs : debitIssued[s] > 0 => userData[s].credits - 1 >= 0

\* two submissions that both read the balance 1 and both had their debit
\* committed: the balance is 0
C28_Witness ==
    \E s, t \in Subs :
        /\ s # t
        /\ userData[s].credits = 1 /\ userData[t].credits = 1
        /\ debitCommitted[s] = 1 /\ debitCommitted[t] = 1
        /\ pc[s] = "completed" /\ pc[t] = "completed"
        /\ credits = 0

\* the sum of the amounts the add_credits calls 1..n that have returned granted
RECURSIVE Granted(_)
Granted(n) ==
    IF n = 0 THEN 0
    ELSE Granted(n - 1) + (IF gpc[n] = "done" THEN gamt[n] ELSE 0)

\* C29 as stated: once the submission and the add_credits calls have all
\* ended, the balance is the initial one plus every amount granted minus one
\* per debit the ledger committed.
C29_Claim ==
    ( /\ \A s \in Subs : pc[s] \in Terminal \cup {"idle"}
      /\ \A g \in Grants : gpc[g] \in {"done", "hook_failed"} )
    => credits = initCredits + Granted(NumGrants)
                   - Cardinality({s \in Subs : debitCommitted[s] = 1})

\* C30 as stated: on a plan with monthly_listings > 0, the month's
\* listings_used never exceeds monthly_listings, whatever the interleaving of
\* the concurrent inserts.
C30_Claim == monthlyListings > 0 => listingsUsed <= monthlyListings

====
